---- MODULE Spec2Model ----
(***************************************************************************)
(* A model of WatchScraper (project1.py): the browser fetch, the           *)
(* per-container extraction with its price normalizer and price filter,    *)
(* and the export, as run_scraper sequences them.                          *)
(***************************************************************************)
EXTENDS Integers, Sequences, FiniteSets, TLC

VARIABLES
  pc,                 \* position in run_scraper and the methods it calls
  driver,             \* self.driver: "None", "open" or "quit"
  page_source,        \* what the browser session has rendered
  ret,                \* fetch_page_source's pending return value
  html_content,       \* run_scraper's local, the value fetch returned
  product_containers, \* the containers find_all returned
  idx,                \* position of the for loop in product_containers
  extract_ret,        \* extract_watch_data's return value
  product_data,       \* self.product_data
  price_limit,        \* self.price_limit
  file,               \* the destination file watch_data.xlsx
  log,                \* the messages printed so far
  price_str,          \* _parse_price's argument
  parsed              \* _parse_price's result

vars == <<pc, driver, page_source, ret, html_content, product_containers,
          idx, extract_ret, product_data, price_limit, file, log,
          price_str, parsed>>

(***************************************************************************)
(* Bounds.                                                                 *)
(***************************************************************************)
MaxContainers == 3
MaxLen == 3

(***************************************************************************)
(* Text is a sequence of characters.                                       *)
(***************************************************************************)
Rupee == "₹"
Digits == {"0", "1", "2", "3", "4", "5", "6", "7", "8", "9"}
Chars == {"0", "1", "2", Rupee, ",", " ", "-", "+", "_", "F"}

DigitVal(c) ==
  CASE c = "0" -> 0 [] c = "1" -> 1 [] c = "2" -> 2 [] c = "3" -> 3
    [] c = "4" -> 4 [] c = "5" -> 5 [] c = "6" -> 6 [] c = "7" -> 7
    [] c = "8" -> 8 [] c = "9" -> 9

SeqsUpTo(S, n) == UNION {[1..k -> S] : k \in 0..n}

Texts == SeqsUpTo(Chars, MaxLen)

(* Python values: None, or an int. *)
PyNone == [isNone |-> TRUE, val |-> 0]
PyIntVal(n) == [isNone |-> FALSE, val |-> n]

(* Truthiness of an optional int: None and 0 are falsy. *)
Truthy(p) == ~p.isNone /\ p.val # 0

(* str.strip(): leading and trailing whitespace removed. *)
RECURSIVE LStrip(_)
LStrip(s) == IF s # <<>> /\ Head(s) = " " THEN LStrip(Tail(s)) ELSE s

RECURSIVE RStrip(_)
RStrip(s) ==
  IF s # <<>> /\ s[Len(s)] = " " THEN RStrip(SubSeq(s, 1, Len(s) - 1)) ELSE s

Strip(s) == RStrip(LStrip(s))

(* re.sub(r'[₹,]', '', s): every currency glyph and comma removed. *)
IsNotSymbol(c) == c \notin {Rupee, ","}
ReSub(s) == SelectSeq(s, IsNotSymbol)

RECURSIVE DecVal(_)
DecVal(s) ==
  IF s = <<>> THEN 0
  ELSE 10 * DecVal(SubSeq(s, 1, Len(s) - 1)) + DigitVal(s[Len(s)])

IsDigit(c) == c \in Digits

(* int(str): surrounding whitespace, an optional sign, then digits with     *)
(* single underscores allowed between digits; anything else is ValueError.  *)
PyInt(s) ==
  LET t      == Strip(s)
      signed == t # <<>> /\ Head(t) \in {"+", "-"}
      body   == IF signed THEN Tail(t) ELSE t
      valid  == /\ body # <<>>
                /\ \A i \in 1..Len(body) : body[i] \in Digits \cup {"_"}
                /\ body[1] # "_"
                /\ body[Len(body)] # "_"
                /\ \A i \in 1..(Len(body) - 1) :
                     ~(body[i] = "_" /\ body[i + 1] = "_")
      mag    == DecVal(SelectSeq(body, IsDigit))
  IN  IF ~valid THEN [raised |-> TRUE, val |-> 0]
      ELSE [raised |-> FALSE,
            val |-> IF signed /\ Head(t) = "-" THEN 0 - mag ELSE mag]

_parse_price(s) ==
  IF s = <<>> THEN PyNone
  ELSE LET cleaned_price == Strip(ReSub(s))
           n == PyInt(cleaned_price)
       IN  IF n.raised THEN PyNone ELSE PyIntVal(n.val)

(***************************************************************************)
(* Markup: a page is a sequence of product containers, each with an        *)
(* optional name, brand and price element.                                 *)
(***************************************************************************)
NoElem == [found |-> FALSE, text |-> <<>>]
Elem(t) == [found |-> TRUE, text |-> t]

WatchText == <<"F">>
BrandText == <<"F", "F">>
PriceTexts == {<<"0">>, <<Rupee, "1">>, <<" ", "2">>, <<"F">>, <<"-", "1">>}
GoodPrice == <<Rupee, "1">>

Containers ==
  {[name |-> Elem(WatchText), brand |-> Elem(BrandText), price |-> p] :
     p \in {NoElem} \cup {Elem(t) : t \in PriceTexts}}
  \cup {[name |-> NoElem, brand |-> Elem(BrandText), price |-> Elem(GoodPrice)],
        [name |-> Elem(WatchText), brand |-> NoElem, price |-> Elem(GoodPrice)]}

Markups == SeqsUpTo(Containers, MaxContainers)

NoneSource == [kind |-> "None", containers |-> <<>>]
EmptySource == [kind |-> "empty", containers |-> <<>>]
ChallengeSource == [kind |-> "challenge", containers |-> <<>>]
MarkupSource(m) == [kind |-> "markup", containers |-> m]

Pages == {EmptySource, ChallengeSource} \cup {MarkupSource(m) : m \in Markups}

(* Truthiness of a str-or-None: None and "" are falsy. *)
TruthyStr(h) == h.kind \notin {"None", "empty"}

Limits == {1, 2}

Record(n, b, p) ==
  [WatchName |-> n, Brand |-> b, Price |-> p, Availability |-> "In Stock"]

NoFile == [kind |-> "missing", rows |-> <<>>]
OldFile == [kind |-> "sheet", rows |-> <<Record(WatchText, BrandText, 9)>>]
Sheet(rows) == [kind |-> "sheet", rows |-> rows]
PartialFile == [kind |-> "partial", rows |-> <<>>]

(***************************************************************************)
(* extract_watch_data, one container.                                      *)
(***************************************************************************)
(* A lookup that yields empty text where the element is missing. *)
ElemTextOrEmpty(e) == [raised |-> FALSE, text |-> e.text]

(* element.text: AttributeError when find returned None. *)
ElemText(e) == [raised |-> ~e.found, text |-> e.text]

(* A handler for the normalizer's exceptions only. *)
ExceptClauseNarrow(exc) == exc \in {"ValueError", "TypeError"}

(* except Exception: catches every exception the loop body can raise. *)
ExceptClause(exc) == exc \in {"AttributeError", "ValueError", "TypeError"}

(* A filter that forgets the ceiling. *)
AcceptsNoLimit(price, L) == Truthy(price)

(* if price and price <= self.price_limit *)
Accepts(price, L) == Truthy(price) /\ price.val <= L

(* A collector that drops a record it already holds. *)
AppendIfNew(data, rec) ==
  IF \E i \in 1..Len(data) : data[i] = rec THEN data ELSE Append(data, rec)

AppendRecord(data, rec) == Append(data, rec)

NoRecord == Record(<<>>, <<>>, 0)

ProcessContainer(c, L) ==
  LET n == ElemText(c.name)
      b == ElemText(c.brand)
  IN  IF n.raised \/ b.raised
        THEN [kind |-> IF ExceptClause("AttributeError") THEN "caught"
                       ELSE "raise",
              rec |-> NoRecord]
      ELSE IF ~c.price.found
        THEN [kind |-> "no_price", rec |-> NoRecord]
      ELSE LET price == _parse_price(c.price.text)
           IN  IF Accepts(price, L)
                 THEN [kind |-> "append",
                       rec |-> Record(Strip(n.text), Strip(b.text), price.val)]
                 ELSE [kind |-> "filtered", rec |-> NoRecord]

(* The for loop over a whole list of containers, starting from data. *)
RECURSIVE ExtractAll(_, _, _)
ExtractAll(cs, data, L) ==
  IF cs = <<>> THEN data
  ELSE LET r == ProcessContainer(Head(cs), L)
       IN  IF r.kind = "raise" THEN data
           ELSE ExtractAll(Tail(cs),
                           IF r.kind = "append" THEN AppendRecord(data, r.rec)
                           ELSE data,
                           L)

(***************************************************************************)
(* fetch_page_source.                                                      *)
(***************************************************************************)
(* A teardown placed on the success path only. *)
QuitOnSuccessOnly(d, exit) == IF exit = "return_markup" THEN "quit" ELSE d

(* finally: self.driver.quit(), whichever way the try block was left. *)
DriverAfterFetch(d, exit) == "quit"

(* A pipeline that goes on whatever the fetch returned. *)
AlwaysProceeds(h) == TRUE

(* if html_content: in run_scraper *)
ProceedsToExtract(h) == TruthyStr(h)

(* An exporter without the empty-list guard. *)
NeverSkips(data) == FALSE

(* if not self.product_data: in save_to_excel *)
NothingToExport(data) == data = <<>>

(***************************************************************************)
(* The pipeline.                                                           *)
(***************************************************************************)
Init ==
  /\ pc = "start"
  /\ driver \in {"open", "None"}
  /\ page_source = EmptySource
  /\ ret = NoneSource
  /\ html_content = NoneSource
  /\ product_containers = <<>>
  /\ idx = 1
  /\ extract_ret = "unset"
  /\ product_data = <<>>
  /\ price_limit \in Limits
  /\ file \in {NoFile, OldFile}
  /\ log = <<>>
  /\ price_str = <<>>
  /\ parsed = PyNone

(* fetch_page_source: if not self.driver: return None *)
FetchNoDriver ==
  /\ pc = "start"
  /\ driver = "None"
  /\ html_content' = NoneSource
  /\ pc' = "fetched"
  /\ UNCHANGED <<driver, page_source, ret, product_containers, idx,
                 extract_ret, product_data, price_limit, file, log,
                 price_str, parsed>>

(* self.driver.get(self.base_url): the page loads, or navigation raises. *)
FetchGet ==
  /\ pc = "start"
  /\ driver = "open"
  /\ \/ /\ \E p \in Pages : page_source' = p
        /\ pc' = "fetch_check"
        /\ log' = Append(log, "Navigating")
        /\ UNCHANGED ret
     \/ /\ ret' = NoneSource
        /\ pc' = "fetch_finally_except"
        /\ log' = log \o <<"Navigating", "FetchError">>
        /\ UNCHANGED page_source
  /\ UNCHANGED <<driver, html_content, product_containers, idx, extract_ret,
                 product_data, price_limit, file, price_str, parsed>>

(* The challenge check and the two return statements of the try block;   *)
(* reading driver.page_source may itself raise.                           *)
FetchCheck ==
  /\ pc = "fetch_check"
  /\ \/ IF page_source.kind = "challenge"
          THEN /\ ret' = NoneSource
               /\ log' = Append(log, "CAPTCHA")
               /\ pc' = "fetch_finally_challenge"
          ELSE /\ ret' = page_source
               /\ log' = log
               /\ pc' = "fetch_finally_markup"
     \/ /\ ret' = NoneSource
        /\ log' = Append(log, "FetchError")
        /\ pc' = "fetch_finally_except"
  /\ UNCHANGED <<driver, page_source, html_content, product_containers, idx,
                 extract_ret, product_data, price_limit, file, price_str,
                 parsed>>

FetchExit ==
  CASE pc = "fetch_finally_markup" -> "return_markup"
    [] pc = "fetch_finally_challenge" -> "return_challenge"
    [] pc = "fetch_finally_except" -> "except"

(* The finally block, then the return to run_scraper. *)
FetchFinally ==
  /\ pc \in {"fetch_finally_markup", "fetch_finally_challenge",
             "fetch_finally_except"}
  /\ driver' = DriverAfterFetch(driver, FetchExit)
  /\ html_content' = ret
  /\ pc' = "fetched"
  /\ UNCHANGED <<page_source, ret, product_containers, idx, extract_ret,
                 product_data, price_limit, file, log, price_str, parsed>>

(* run_scraper: if html_content: *)
RunAfterFetch ==
  /\ pc = "fetched"
  /\ pc' = IF ProceedsToExtract(html_content) THEN "extract_begin" ELSE "done"
  /\ UNCHANGED <<driver, page_source, ret, html_content, product_containers,
                 idx, extract_ret, product_data, price_limit, file, log,
                 price_str, parsed>>

(* extract_watch_data up to the for loop. *)
ExtractBegin ==
  /\ pc = "extract_begin"
  /\ IF ~TruthyStr(html_content)
       THEN /\ extract_ret' = "None"
            /\ pc' = "save"
            /\ UNCHANGED <<product_containers, idx, log>>
       ELSE /\ product_containers' = html_content.containers
            /\ idx' = 1
            /\ IF html_content.containers = <<>>
                 THEN /\ log' = log \o <<"Extracting", "NoContainers">>
                      /\ extract_ret' = "None"
                      /\ pc' = "save"
                 ELSE /\ log' = Append(log, "Extracting")
                      /\ extract_ret' = extract_ret
                      /\ pc' = "extract"
  /\ UNCHANGED <<driver, page_source, ret, html_content, product_data,
                 price_limit, file, price_str, parsed>>

(* One iteration of the for loop. *)
ExtractStep ==
  /\ pc = "extract"
  /\ idx <= Len(product_containers)
  /\ LET r == ProcessContainer(product_containers[idx], price_limit)
     IN  /\ product_data' = IF r.kind = "append"
                              THEN AppendRecord(product_data, r.rec)
                              ELSE product_data
         /\ log' = IF r.kind = "caught" THEN Append(log, "ExtractError")
                   ELSE log
         /\ pc' = IF r.kind = "raise" THEN "crashed" ELSE "extract"
  /\ idx' = idx + 1
  /\ UNCHANGED <<driver, page_source, ret, html_content, product_containers,
                 extract_ret, price_limit, file, price_str, parsed>>

(* The loop is exhausted: the summary is printed and the method returns. *)
ExtractEnd ==
  /\ pc = "extract"
  /\ idx > Len(product_containers)
  /\ log' = Append(log, "Found")
  /\ extract_ret' = "None"
  /\ pc' = "save"
  /\ UNCHANGED <<driver, page_source, ret, html_content, product_containers,
                 idx, product_data, price_limit, file, price_str, parsed>>

(* save_to_excel: the write succeeds, or raises and is caught. *)
SaveToExcel ==
  /\ pc = "save"
  /\ IF NothingToExport(product_data)
       THEN /\ log' = Append(log, "NoData")
            /\ file' = file
       ELSE \/ /\ file' = Sheet(product_data)
               /\ log' = Append(log, "Saved")
            \/ /\ file' \in {file, PartialFile}
               /\ log' = Append(log, "SaveError")
  /\ pc' = "done"
  /\ UNCHANGED <<driver, page_source, ret, html_content, product_containers,
                 idx, extract_ret, product_data, price_limit, price_str,
                 parsed>>

Next ==
  \/ FetchNoDriver
  \/ FetchGet
  \/ FetchCheck
  \/ FetchFinally
  \/ RunAfterFetch
  \/ ExtractBegin
  \/ ExtractStep
  \/ ExtractEnd
  \/ SaveToExcel

Spec == Init /\ [][Next]_vars

(***************************************************************************)
(* The price normalizer on its own, over every text within the bound.      *)
(***************************************************************************)
ParseInit ==
  /\ pc = "parse"
  /\ price_str \in Texts
  /\ parsed = PyNone
  /\ driver = "None"
  /\ page_source = EmptySource
  /\ ret = NoneSource
  /\ html_content = NoneSource
  /\ product_containers = <<>>
  /\ idx = 1
  /\ extract_ret = "unset"
  /\ product_data = <<>>
  /\ price_limit \in Limits
  /\ file = NoFile
  /\ log = <<>>

ParsePrice ==
  /\ pc = "parse"
  /\ parsed' = _parse_price(price_str)
  /\ pc' = "parsed"
  /\ UNCHANGED <<driver, page_source, ret, html_content, product_containers,
                 idx, extract_ret, product_data, price_limit, file, log,
                 price_str>>

ParseNext == ParsePrice

ParseSpec == ParseInit /\ [][ParseNext]_vars

(***************************************************************************)
(* Properties.                                                             *)
(***************************************************************************)
Processed == SubSeq(product_containers, 1, idx - 1)

ParsedPrice(c) == _parse_price(c.price.text)

(* A container with all three elements and a price text that parses. *)
WellFormed(c) ==
  c.name.found /\ c.brand.found /\ c.price.found /\ ~ParsedPrice(c).isNone

RecordOf(c) ==
  Record(Strip(c.name.text), Strip(c.brand.text), ParsedPrice(c).val)

FetchReturned ==
  pc \in {"fetched", "extract_begin", "extract", "save", "done", "crashed"}

(* C1: every record in product_data has a price no greater than the       *)
(* price limit.                                                            *)
C1_PriceWithinLimit ==
  \A i \in 1..Len(product_data) : product_data[i].Price <= price_limit

(* A record was accepted and a container priced above the limit was seen. *)
C1_Witness ==
  /\ pc = "done"
  /\ Len(product_data) >= 1
  /\ \E i \in 1..Len(product_containers) :
       /\ WellFormed(product_containers[i])
       /\ ParsedPrice(product_containers[i]).val > price_limit

(* C2: a container that fails (missing name, brand or price element, or   *)
(* an unparseable price) is skipped alone: nothing propagates out of the   *)
(* loop, and product_data is what extraction of the processed containers   *)
(* without the failing ones yields.                                        *)
NotFailing(c) == WellFormed(c)

C2_Isolated ==
  /\ pc # "crashed"
  /\ product_data =
       ExtractAll(SelectSeq(Processed, NotFailing), <<>>, price_limit)

(* Three acceptable containers but for the second, which has no price     *)
(* element: two records.                                                   *)
C2_Witness ==
  /\ pc = "save"
  /\ Len(product_containers) = 3
  /\ WellFormed(product_containers[1])
  /\ product_containers[2].name.found
  /\ product_containers[2].brand.found
  /\ ~product_containers[2].price.found
  /\ WellFormed(product_containers[3])
  /\ Len(product_data) = 2

(* C3: once fetch_page_source has returned, no browser session is open.   *)
C3_SessionReleased == FetchReturned => driver # "open"

(* The challenge marker was found and the session has been quit. *)
C3_Witness ==
  /\ pc = "fetched"
  /\ page_source.kind = "challenge"
  /\ html_content = NoneSource
  /\ driver = "quit"

(* C4: a processed container whose price text parsed to an integer p has  *)
(* its record in product_data exactly when p <= price_limit, p = 0         *)
(* included.                                                               *)
C4_AcceptsIffWithinLimit ==
  \A i \in 1..Len(Processed) :
    WellFormed(Processed[i]) =>
      ((\E j \in 1..Len(product_data) : product_data[j] = RecordOf(Processed[i]))
         <=> ParsedPrice(Processed[i]).val <= price_limit)

(* C5: product_data grows only by the record of a container that has a    *)
(* name, a brand and a price element whose text parsed to an integer.      *)
C5_NoPartialRecords ==
  [][Len(product_data') > Len(product_data) =>
       /\ pc = "extract"
       /\ idx <= Len(product_containers)
       /\ WellFormed(product_containers[idx])
       /\ product_data' = Append(product_data, RecordOf(product_containers[idx]))
    ]_vars

(* A container without a brand was passed over and the next one accepted. *)
C5_Witness ==
  /\ pc = "save"
  /\ Len(product_containers) = 2
  /\ ~product_containers[1].brand.found
  /\ product_containers[1].name.found
  /\ WellFormed(product_containers[2])
  /\ Len(product_data) = 1

(* C6: when extraction returns on markup without containers, its return   *)
(* value and resulting product_data differ from those of every extraction  *)
(* that finds containers and accepts none.                                 *)
C6_NoContainersDistinct ==
  (pc = "save" /\ product_containers = <<>>) =>
    \A m \in Markups :
      (m # <<>> /\ ExtractAll(m, <<>>, price_limit) = <<>>) =>
        [ret |-> "None", data |-> ExtractAll(m, <<>>, price_limit)]
          # [ret |-> extract_ret, data |-> product_data]

(* C7: _parse_price returns the value of the text once glyph, commas and  *)
(* surrounding whitespace are removed when a non-empty digit string        *)
(* remains, and None for every other text.                                 *)
PlainNumber(s) ==
  LET c == Strip(ReSub(s))
  IN  IF c # <<>> /\ \A i \in 1..Len(c) : c[i] \in Digits
        THEN PyIntVal(DecVal(c))
        ELSE PyNone

C7_ParsePrice == pc = "parsed" => parsed = PlainNumber(price_str)

(* C8: extraction runs only on markup a finished fetch returned, export   *)
(* only after extraction has returned, and after a failed fetch            *)
(* product_data stays empty and the file is not written.                   *)
C8_Sequential ==
  /\ [](/\ pc \in {"extract_begin", "extract", "save", "crashed"} =>
             TruthyStr(html_content) /\ driver = "quit"
        /\ pc = "save" =>
             /\ extract_ret = "None"
             /\ product_containers = html_content.containers
             /\ Processed = product_containers
        /\ (FetchReturned /\ ~TruthyStr(html_content)) =>
             product_data = <<>> /\ pc \in {"fetched", "done"})
  /\ [][~TruthyStr(html_content') =>
          file' = file /\ product_data' = product_data]_vars

(* Navigation raised: the pipeline ended with nothing extracted and the   *)
(* existing file as it was.                                                *)
C8_Witness ==
  /\ pc = "done"
  /\ html_content = NoneSource
  /\ driver = "quit"
  /\ extract_ret = "unset"
  /\ product_data = <<>>
  /\ file = OldFile

(* C9: save_to_excel on an empty product_data leaves the destination file *)
(* as it is and reports that there is nothing to save.                     *)
C9_EmptyExportNoOp ==
  [][(pc = "save" /\ product_data = <<>>) =>
       /\ file' = file
       /\ pc' = "done" => log' = Append(log, "NoData")
    ]_vars

(* Containers were found, none accepted, and the old file is still there. *)
C9_Witness ==
  /\ pc = "done"
  /\ product_containers # <<>>
  /\ product_data = <<>>
  /\ log[Len(log)] = "NoData"
  /\ file = OldFile

(* C10: product_data is the records of the accepted containers among those *)
(* processed, in their order, duplicates kept, and it only ever grows at   *)
(* its end.                                                                *)
IsAccepted(c) == WellFormed(c) /\ Accepts(ParsedPrice(c), price_limit)

C10_EncounterOrder ==
  /\ [](LET sel == SelectSeq(Processed, IsAccepted)
        IN  product_data = [i \in 1..Len(sel) |-> RecordOf(sel[i])])
  /\ [][/\ Len(product_data') >= Len(product_data)
        /\ SubSeq(product_data', 1, Len(product_data)) = product_data]_vars

(* Two accepted containers with the same name, brand and price, and a     *)
(* third record after them.                                                *)
C10_Witness ==
  /\ pc = "save"
  /\ Len(product_data) = 3
  /\ product_data[1] = product_data[2]
  /\ product_data[3] # product_data[1]

====
